---- MODULE Spec2Model ----
(***************************************************************************)
(* Healthmint: wallet connection hook (useWalletConnect) and session       *)
(* authentication service (AuthService).                                   *)
(*                                                                         *)
(* The wallet part models the hook of src/hooks/useWalletConnect.js (kept  *)
(* in src/client/src/components/UserRegistration.js from line 427 on): the *)
(* redux wallet slice it dispatches to, the two browser storages, the      *)
(* external provider (window.ethereum) and every await point of the        *)
(* hook's asynchronous callbacks.  The session part models the AuthService *)
(* singleton of src/client/src/services/authService.js.                    *)
(***************************************************************************)
EXTENDS Integers, Sequences, FiniteSets, TLC

(***************************************************************************)
(* Bounds and value sets                                                   *)
(***************************************************************************)
\* number of connectWallet() calls that may be in flight at once
MaxConnects == 1

\* last instant of the model clock
MaxTime == 2

NoAddr == "none"
NoChain == "nochain"
NoErr == "noerror"

\* addresses the provider can expose: one in mixed case, one in lower case
Addrs == {"0xAB", "0xcd"}

\* the address an earlier visit may have left in persistence
PersistedAddr == "0xAB"

\* the address register(userData) is called with
RegisterAddr == "0xAB"

\* chain ids the provider can report: a supported and an unsupported one
Chains == {"0x1", "0x5"}

\* a chain id that is not a key of the networks table
UnlistedChain == "0x89"

\* outcomes of the provider's answer to eth_requestAccounts
AccountOutcomes == {"ok", "empty", "4001", "-32002", "other"}

(***************************************************************************)
(* State                                                                   *)
(***************************************************************************)
VARIABLES
  \* environment: window.ethereum and the hook's option
  providerKind,      \* "absent" | "plain" | "withDisconnect"
  autoConnect,       \* options.autoConnect
  provAccount,       \* account the provider currently exposes, or NoAddr
  provChain,         \* chain the provider currently targets
  \* redux wallet slice
  address, chainId, isConnected, network,
  \* localStorage / sessionStorage keys written by the hook
  lsAddress,         \* healthmint_wallet_address
  lsConnection,      \* healthmint_wallet_connection: TRUE when "true"
  ssLogout,          \* logout_in_progress
  ssForceReconnect,  \* force_wallet_reconnect
  \* hook instance
  mounted, isActive, listening, error,
  \* asynchronous calls in flight
  connAwaitAccounts, \* connectWallet calls suspended at eth_requestAccounts
  connAwaitNetwork,  \* [Addrs -> Nat]: calls suspended at getNetwork
  discPending,       \* disconnectWallet suspended at ethereum.disconnect()
  reconPending,      \* stored addresses whose eth_chainId request is pending
  autoAcctPending,   \* auto-connect pass suspended at eth_accounts
  autoChainPending,  \* auto-connect passes suspended at eth_chainId, by account
  \* history
  notifSince,        \* [Addrs -> BOOLEAN]: an accountsChanged was handed to
                     \* the listener since an account request returned
                     \* that address and while that call is in flight
  lastOp,            \* the wallet operation that completed last
  \* AuthService instance
  token, refreshToken, tokenExpiry, userProfile, authWalletAddress,
  isNewUserFlag,     \* this._isNewUser
  \* localStorage keys of AuthService (healthmint_wallet_address is lsAddress)
  lsToken, lsRefreshToken, lsTokenExpiry, lsUserProfile,
  lsIsNewUser,       \* "absent" | "true" | "false"
  savedUsers,        \* addresses a with a key healthmint_user_<a>
  \* clock and asynchronous AuthService calls in flight
  now,
  login,             \* [pc, addr, t, profile, loggedOut] of the login()
                     \* call in flight
  logoutPc,          \* "idle" | "audit"
  register,          \* [pc, addr] of the register() call in flight
  userCall,          \* [pc, profile, calls, audit] of the
                     \* UserService.getCurrentUser() call in flight
  lastAuthOp         \* the session operation that completed last

envVars == <<providerKind, autoConnect, provAccount, provChain>>
reduxVars == <<address, chainId, isConnected, network>>
storeVars == <<lsAddress, lsConnection, ssLogout, ssForceReconnect>>
hookVars == <<mounted, isActive, listening, error>>
flightVars == <<connAwaitAccounts, connAwaitNetwork, discPending,
                reconPending, autoAcctPending, autoChainPending>>
histVars == <<notifSince, lastOp>>
walletVars == <<envVars, reduxVars, storeVars, hookVars, flightVars, histVars>>
memVars == <<token, refreshToken, tokenExpiry, userProfile, authWalletAddress,
             isNewUserFlag>>
lsAuthVars == <<lsToken, lsRefreshToken, lsTokenExpiry, lsUserProfile,
                lsIsNewUser, savedUsers>>
callVars == <<login, logoutPc, register, userCall>>
authVars == <<memVars, lsAuthVars, callVars, now, lastAuthOp>>
vars == <<walletVars, authVars>>

\* lastOp: operation, its argument, its outcome, the notification recorded
\* while it was in flight, the identity held before it ran, and the audit
\* events the operation handed to hipaaComplianceService.createAuditLog
\* (the hook does not import that service: it hands over none)
NoOp ==
  [op |-> "none", arg |-> "none", res |-> "none", notif |-> NoAddr,
   prev |-> NoAddr, was |-> FALSE, audit |-> <<>>]

Op(o, a, r, n) ==
  [op |-> o, arg |-> a, res |-> r, notif |-> n,
   prev |-> NoAddr, was |-> FALSE, audit |-> <<>>]

\* a notification or a disconnect: also records the identity held when it
\* arrived
Notif(o, a, r) ==
  [op |-> o, arg |-> a, res |-> r, notif |-> NoAddr,
   prev |-> address, was |-> isConnected, audit |-> <<>>]

\* String.prototype.toLowerCase on the addresses of the model
toLowerCase(a) == IF a = "0xAB" THEN "0xab" ELSE a

(***************************************************************************)
(* getNetworkFromChainId                                                   *)
(***************************************************************************)
KnownNetworks == {"0x1", "0xaa36a7", "0x5", "0x539"}

NetworkTable(c) ==
  CASE c = "0x1" -> [name |-> "Ethereum Mainnet", isSupported |-> TRUE]
    [] c = "0xaa36a7" -> [name |-> "Sepolia Testnet", isSupported |-> TRUE]
    [] c = "0x5" -> [name |-> "Goerli Testnet", isSupported |-> FALSE]
    [] c = "0x539" -> [name |-> "Local Development", isSupported |-> TRUE]

NoNetwork == [name |-> "null", isSupported |-> FALSE, chainId |-> NoChain]

\* a lookup that takes an id missing from the table for a supported network
getNetworkFromChainIdTrustingUnlisted(c) ==
  IF c = NoChain
    THEN [name |-> "Unknown", isSupported |-> FALSE, chainId |-> NoChain]
    ELSE IF c \in KnownNetworks
      THEN [name |-> NetworkTable(c).name,
            isSupported |-> NetworkTable(c).isSupported, chainId |-> c]
      ELSE [name |-> "Unknown Network (" \o c \o ")", isSupported |-> TRUE,
            chainId |-> c]

getNetworkFromChainId(c) ==
  IF c = NoChain
    THEN [name |-> "Unknown", isSupported |-> FALSE, chainId |-> NoChain]
    ELSE IF c \in KnownNetworks
      THEN [name |-> NetworkTable(c).name,
            isSupported |-> NetworkTable(c).isSupported, chainId |-> c]
      ELSE [name |-> "Unknown Network (" \o c \o ")", isSupported |-> FALSE,
            chainId |-> c]

(***************************************************************************)
(* The wallet effect of the hook                                           *)
(***************************************************************************)
\* window.ethereum?.on is defined
HasOn == providerKind # "absent"

\* Re-render after a dispatch: when address or isConnected changed and the
\* hook is mounted, the effect's cleanup runs (isActive.current = false,
\* listeners removed) and the effect body runs again with the new values:
\* listeners are registered, the persisted-state pass and the auto-connect
\* pass are started.  baseRecon/baseAuto are the pending passes left by the
\* dispatching step itself.
EffectBody(newAddress, newConnected, lsA, lsC, baseRecon, baseAuto) ==
  /\ listening' = TRUE
  /\ reconPending' =
       IF lsA # NoAddr /\ lsC /\ newAddress = NoAddr
         THEN baseRecon \cup {lsA} ELSE baseRecon
  /\ autoAcctPending' = (baseAuto \/ (autoConnect /\ ~newConnected))

Rerender(newAddress, newConnected, lsA, lsC, baseRecon, baseAuto) ==
  IF mounted /\ HasOn /\ (newAddress # address \/ newConnected # isConnected)
    THEN /\ isActive' = FALSE
         /\ EffectBody(newAddress, newConnected, lsA, lsC, baseRecon, baseAuto)
    ELSE /\ isActive' = isActive
         /\ listening' = listening
         /\ reconPending' = baseRecon
         /\ autoAcctPending' = baseAuto

(***************************************************************************)
(* Initial state: the page has loaded, the hook is not mounted yet.        *)
(* Persistence holds what an earlier visit left: nothing, an address with  *)
(* the connected flag (connectWallet), or an address alone                 *)
(* (handleAccountsChanged).                                                *)
(***************************************************************************)
WalletInit ==
  /\ providerKind \in {"absent", "plain", "withDisconnect"}
  /\ provAccount \in Addrs \cup {NoAddr}
  /\ provChain = "0x1"
  /\ address = NoAddr /\ chainId = NoChain /\ isConnected = FALSE
  /\ network = NoNetwork
  /\ \E a \in {PersistedAddr, NoAddr}, c \in BOOLEAN :
       /\ (a = NoAddr => ~c)
       /\ lsAddress = a /\ lsConnection = c
  /\ ssLogout = FALSE /\ ssForceReconnect = FALSE
  /\ mounted = FALSE /\ isActive = TRUE /\ listening = FALSE
  /\ error = NoErr
  /\ connAwaitAccounts = 0
  /\ connAwaitNetwork = [a \in Addrs |-> 0]
  /\ discPending = FALSE
  /\ reconPending = {}
  /\ autoAcctPending = FALSE
  /\ autoChainPending = {}
  /\ notifSince = [a \in Addrs |-> FALSE]
  /\ lastOp = NoOp

(***************************************************************************)
(* Mount and unmount of the component using the hook                       *)
(***************************************************************************)
InFlightConnects ==
  connAwaitAccounts + connAwaitNetwork["0xAB"] + connAwaitNetwork["0xcd"]

WalletIdle ==
  /\ InFlightConnects = 0
  /\ ~discPending
  /\ reconPending = {}
  /\ ~autoAcctPending
  /\ autoChainPending = {}

\* First render of a hook instance: fresh refs and local state, then the
\* effect body.  Without window.ethereum.on the effect returns at once.
Mount ==
  /\ ~mounted /\ WalletIdle
  /\ mounted' = TRUE
  /\ isActive' = TRUE
  /\ error' = NoErr
  /\ IF HasOn
       THEN EffectBody(address, isConnected, lsAddress, lsConnection,
                       {}, FALSE)
       ELSE /\ listening' = FALSE /\ reconPending' = {}
            /\ autoAcctPending' = FALSE
  /\ lastOp' = Op("mount", "none", "done", NoAddr)
  /\ UNCHANGED <<authVars, envVars, reduxVars, storeVars, connAwaitAccounts,
                 connAwaitNetwork, discPending, autoChainPending, notifSince>>

\* Teardown: the cleanup returned by the effect, when there is one.
Unmount ==
  /\ mounted
  /\ mounted' = FALSE
  /\ isActive' = (IF HasOn THEN FALSE ELSE isActive)
  /\ listening' = FALSE
  /\ lastOp' = Op("unmount", "none", "done", NoAddr)
  /\ UNCHANGED <<authVars, envVars, reduxVars, storeVars, error, flightVars,
                 notifSince>>

(***************************************************************************)
(* connectWallet                                                           *)
(***************************************************************************)
\* connectWallet without a provider that cleans persistence up the way the
\* catch block does
ConnectNoProviderCleaning ==
  /\ mounted /\ providerKind = "absent"
  /\ error' = "noProvider"
  /\ lsAddress' = NoAddr
  /\ lsConnection' = FALSE
  /\ lastOp' = Op("connect", "none", "noProvider", NoAddr)
  /\ UNCHANGED <<authVars, envVars, reduxVars, ssLogout, ssForceReconnect,
                 mounted, isActive, listening, flightVars, notifSince>>

\* window.ethereum is undefined: the message is recorded and returned
ConnectNoProvider ==
  /\ mounted /\ providerKind = "absent"
  /\ error' = "noProvider"
  /\ lastOp' = Op("connect", "none", "noProvider", NoAddr)
  /\ UNCHANGED <<authVars, envVars, reduxVars, storeVars, mounted, isActive,
                 listening, flightVars, notifSince>>

ConnectStart ==
  /\ mounted /\ providerKind # "absent"
  /\ InFlightConnects < MaxConnects
  /\ error' = NoErr
  /\ connAwaitAccounts' = connAwaitAccounts + 1
  /\ UNCHANGED <<authVars, envVars, reduxVars, storeVars, mounted, isActive,
                 listening, connAwaitNetwork, discPending, reconPending,
                 autoAcctPending, autoChainPending, histVars>>

\* catch block of connectWallet: record the message, remove both keys
\* (cause: what was thrown; msg: the message recorded and returned)
ConnectCatch(cause, msg) ==
  /\ error' = msg
  /\ lsAddress' = NoAddr
  /\ lsConnection' = FALSE
  /\ lastOp' = Op("connect", cause, msg, NoAddr)

\* the catch block without its branch for code -32002
ErrorMessageWithoutPending(outcome) ==
  CASE outcome = "4001" -> "rejected"
    [] outcome = "empty" -> "noAccounts"
    [] OTHER -> "failed"

\* the message for what eth_requestAccounts threw ("failed" stands for the
\* provider's own error.message, or "Failed to connect wallet")
ErrorMessage(outcome) ==
  CASE outcome = "4001" -> "rejected"
    [] outcome = "-32002" -> "pending"
    [] outcome = "empty" -> "noAccounts"
    [] OTHER -> "failed"

\* eth_requestAccounts settles
\* (the account list is the one the provider exposes: a user who approves
\* the request makes the provider expose an account, which the provider
\* announces by an accountsChanged of its own)
ConnectAccounts(outcome) ==
  /\ connAwaitAccounts > 0
  /\ connAwaitAccounts' = connAwaitAccounts - 1
  /\ outcome = "ok" => provAccount # NoAddr
  /\ outcome = "empty" => provAccount = NoAddr
  /\ IF outcome = "ok"
       THEN /\ connAwaitNetwork' =
                 [connAwaitNetwork EXCEPT ![provAccount] = @ + 1]
            /\ notifSince' = [notifSince EXCEPT ![provAccount] = FALSE]
            /\ UNCHANGED <<error, lsAddress, lsConnection, lastOp>>
       ELSE /\ ConnectCatch(outcome, ErrorMessage(outcome))
            /\ UNCHANGED <<connAwaitNetwork, notifSince>>
  /\ UNCHANGED <<authVars, envVars, reduxVars, ssLogout, ssForceReconnect,
                 mounted, isActive, listening, discPending, reconPending,
                 autoAcctPending, autoChainPending>>

\* provider.getNetwork() settles; on success the result is committed
ConnectNetwork(acct, ok) ==
  /\ connAwaitNetwork[acct] > 0
  /\ connAwaitNetwork' = [connAwaitNetwork EXCEPT ![acct] = @ - 1]
  /\ IF ok
       THEN /\ lsAddress' = acct
            /\ lsConnection' = TRUE
            /\ address' = acct
            /\ chainId' = provChain
            /\ isConnected' = TRUE
            /\ Rerender(acct, TRUE, acct, TRUE, reconPending, autoAcctPending)
            /\ lastOp' = Op("connect", acct, "success",
                            IF notifSince[acct] THEN provAccount ELSE NoAddr)
            /\ UNCHANGED error
       ELSE /\ ConnectCatch("getNetwork", "failed")
            /\ UNCHANGED <<address, chainId, isConnected, isActive, listening,
                           reconPending, autoAcctPending>>
  /\ notifSince' =
       [notifSince EXCEPT ![acct] = (connAwaitNetwork[acct] > 1 /\ @)]
  /\ UNCHANGED <<authVars, envVars, network, ssLogout, ssForceReconnect,
                 mounted, connAwaitAccounts, discPending, autoChainPending>>

(***************************************************************************)
(* Redux wallet slice reducers (walletSlice.js)                            *)
(***************************************************************************)
\* clearWalletConnection() and setWalletConnection({address: null,
\* isConnected: false, network: null}): the identity is cleared
ClearedIdentity ==
  /\ address' = NoAddr
  /\ isConnected' = FALSE
  /\ chainId' = NoChain
  /\ network' = NoNetwork

(***************************************************************************)
(* disconnectWallet                                                        *)
(***************************************************************************)
\* the part of disconnectWallet after the provider has been notified
\* (lastOp records whether the previous completed operation was a
\* disconnect too, and the identity held before the commit)
DisconnectCommitKeepingFlag(baseAuto, res) ==
  /\ ClearedIdentity
  /\ lsAddress' = NoAddr
  /\ lsConnection' = lsConnection
  /\ ssForceReconnect' = TRUE
  /\ Rerender(NoAddr, FALSE, NoAddr, lsConnection, reconPending, baseAuto)
  /\ lastOp' = Notif("disconnect",
                     IF lastOp.op = "disconnect" THEN "repeat" ELSE "first",
                     res)

\* a disconnect that reports a failure when there is nothing to disconnect
DisconnectCommitFailingWhenIdle(baseAuto, res) ==
  /\ ClearedIdentity
  /\ lsAddress' = NoAddr
  /\ lsConnection' = FALSE
  /\ ssForceReconnect' = TRUE
  /\ Rerender(NoAddr, FALSE, NoAddr, FALSE, reconPending, baseAuto)
  /\ lastOp' = Notif("disconnect",
                     IF lastOp.op = "disconnect" THEN "repeat" ELSE "first",
                     IF address = NoAddr THEN "failed" ELSE res)

DisconnectCommit(baseAuto, res) ==
  /\ ClearedIdentity
  /\ lsAddress' = NoAddr
  /\ lsConnection' = FALSE
  /\ ssForceReconnect' = TRUE
  /\ Rerender(NoAddr, FALSE, NoAddr, FALSE, reconPending, baseAuto)
  /\ lastOp' = Notif("disconnect",
                     IF lastOp.op = "disconnect" THEN "repeat" ELSE "first",
                     res)

\* provider absent or without a disconnect function: no await is taken
DisconnectNow ==
  /\ mounted /\ ~discPending
  /\ providerKind # "withDisconnect"
  /\ ssLogout' = TRUE
  /\ error' = NoErr
  /\ DisconnectCommit(autoAcctPending, "done")
  /\ UNCHANGED <<authVars, envVars, mounted, connAwaitAccounts,
                 connAwaitNetwork, discPending, autoChainPending, notifSince>>

DisconnectStart ==
  /\ mounted /\ ~discPending
  /\ providerKind = "withDisconnect"
  /\ ssLogout' = TRUE
  /\ error' = NoErr
  /\ discPending' = TRUE
  /\ UNCHANGED <<authVars, envVars, reduxVars, lsAddress, lsConnection,
                 ssForceReconnect, mounted, isActive, listening,
                 connAwaitAccounts, connAwaitNetwork, reconPending,
                 autoAcctPending, autoChainPending, histVars>>

\* window.ethereum.disconnect() settles; a rejection is caught and ignored.
\* (A provider that stops exposing its account announces it by an
\* accountsChanged of its own.)
DisconnectResolve(ok) ==
  /\ discPending
  /\ discPending' = FALSE
  /\ DisconnectCommit(autoAcctPending, IF ok THEN "done" ELSE "providerThrew")
  /\ UNCHANGED <<authVars, envVars, ssLogout, mounted, error,
                 connAwaitAccounts, connAwaitNetwork, autoChainPending,
                 notifSince>>

(***************************************************************************)
(* Provider notifications                                                  *)
(***************************************************************************)
\* the provider changes the exposed account and emits accountsChanged;
\* handleAccountsChanged runs when a listener is registered
ProviderAccountsChanged(a) ==
  /\ providerKind # "absent"
  /\ a # provAccount
  /\ provAccount' = a
  /\ IF ~listening
       THEN /\ lastOp' = Notif("accountsChanged", a, "notDelivered")
            /\ UNCHANGED <<reduxVars, lsAddress, lsConnection, isActive,
                           listening, reconPending, autoAcctPending, notifSince>>
       ELSE /\ notifSince' =
                 [x \in Addrs |-> connAwaitNetwork[x] > 0 \/ notifSince[x]]
            /\ IF ~isActive
                 THEN /\ lastOp' = Notif("accountsChanged", a, "ignored")
                      /\ UNCHANGED <<reduxVars, lsAddress, lsConnection,
                                     isActive, listening, reconPending,
                                     autoAcctPending>>
                 ELSE /\ lastOp' = Notif("accountsChanged", a, "applied")
                      /\ IF a = NoAddr
                           THEN /\ ClearedIdentity
                                /\ lsAddress' = NoAddr
                                /\ lsConnection' = FALSE
                                /\ Rerender(NoAddr, FALSE, NoAddr, FALSE,
                                            reconPending, autoAcctPending)
                           ELSE /\ lsAddress' = a
                                /\ address' = a
                                /\ UNCHANGED <<chainId, isConnected, network,
                                               lsConnection>>
                                /\ Rerender(a, isConnected, a, lsConnection,
                                            reconPending, autoAcctPending)
  /\ UNCHANGED <<authVars, providerKind, autoConnect, provChain, ssLogout,
                 ssForceReconnect, mounted, error, connAwaitAccounts,
                 connAwaitNetwork, discPending, autoChainPending>>

\* the provider changes chain and emits chainChanged
ProviderChainChanged(c) ==
  /\ providerKind # "absent"
  /\ c # provChain
  /\ provChain' = c
  /\ IF listening /\ isActive
       THEN /\ chainId' = c
            /\ network' = getNetworkFromChainId(c)
            /\ lastOp' = Op("chainChanged", c, "applied", NoAddr)
       ELSE /\ UNCHANGED <<chainId, network>>
            /\ lastOp' = Op("chainChanged", c,
                            IF listening THEN "ignored" ELSE "notDelivered",
                            NoAddr)
  /\ UNCHANGED <<authVars, providerKind, autoConnect, provAccount, address,
                 isConnected, storeVars, hookVars, flightVars, notifSince>>

(***************************************************************************)
(* Initialization passes started by the effect                             *)
(***************************************************************************)
\* eth_chainId of the persisted-state pass settles
ReconResolve(stored, ok) ==
  /\ stored \in reconPending
  /\ IF ok
       THEN /\ address' = stored
            /\ chainId' = provChain
            /\ isConnected' = TRUE
            /\ network' = getNetworkFromChainId(provChain)
            /\ Rerender(stored, TRUE, lsAddress, lsConnection,
                        reconPending \ {stored}, autoAcctPending)
            /\ lastOp' = Op("reconcile", stored, "connected", NoAddr)
       ELSE /\ reconPending' = reconPending \ {stored}
            /\ lastOp' = Op("reconcile", stored, "failed", NoAddr)
            /\ UNCHANGED <<reduxVars, isActive, listening, autoAcctPending>>
  /\ UNCHANGED <<authVars, envVars, storeVars, mounted, error,
                 connAwaitAccounts, connAwaitNetwork, discPending,
                 autoChainPending, notifSince>>

\* eth_accounts of the auto-connect pass settles
AutoAccounts(ok) ==
  /\ autoAcctPending
  /\ autoAcctPending' = FALSE
  /\ IF ok /\ provAccount # NoAddr
       THEN /\ lsAddress' = provAccount
            /\ lsConnection' = TRUE
            /\ autoChainPending' = autoChainPending \cup {provAccount}
       ELSE UNCHANGED <<lsAddress, lsConnection, autoChainPending>>
  /\ lastOp' = Op("autoAccounts", "none",
                  IF ok THEN "answered" ELSE "failed", NoAddr)
  /\ UNCHANGED <<authVars, envVars, reduxVars, ssLogout, ssForceReconnect,
                 mounted, isActive, listening, error, connAwaitAccounts,
                 connAwaitNetwork, discPending, reconPending, notifSince>>

\* eth_chainId of the auto-connect pass settles
AutoChain(acct, ok) ==
  /\ acct \in autoChainPending
  /\ autoChainPending' = autoChainPending \ {acct}
  /\ IF ok
       THEN /\ address' = acct
            /\ chainId' = provChain
            /\ isConnected' = TRUE
            /\ network' = getNetworkFromChainId(provChain)
            /\ Rerender(acct, TRUE, lsAddress, lsConnection,
                        reconPending, autoAcctPending)
            /\ lastOp' = Op("autoConnect", acct, "connected", NoAddr)
       ELSE /\ lastOp' = Op("autoConnect", acct, "failed", NoAddr)
            /\ UNCHANGED <<reduxVars, isActive, listening, reconPending,
                           autoAcctPending>>
  /\ UNCHANGED <<authVars, envVars, storeVars, mounted, error,
                 connAwaitAccounts, connAwaitNetwork, discPending,
                 notifSince>>

(***************************************************************************)
(* switchNetwork                                                           *)
(***************************************************************************)
\* outcomes of the provider's answer to wallet_switchEthereumChain
SwitchOutcomes == {"ok", "4001", "other"}

\* window.ethereum is undefined: false is returned at once
SwitchNoProvider(target) ==
  /\ mounted /\ providerKind = "absent"
  /\ lastOp' = Op("switchNetwork", target, "falseNoProvider", "none")
  /\ UNCHANGED <<authVars, envVars, reduxVars, storeVars, hookVars,
                 flightVars, notifSince>>

\* a switchNetwork that stores the target chain itself when the request
\* resolves
SwitchNetworkWritingChain(target, outcome) ==
  /\ mounted /\ providerKind # "absent"
  /\ outcome = "ok" => provChain = target
  /\ lastOp' =
       Op("switchNetwork", target,
          CASE outcome = "ok" -> "true"
            [] outcome = "4001" -> "falseInfo"
            [] OTHER -> "falseError",
          outcome)
  /\ chainId' = (IF outcome = "ok" THEN target ELSE chainId)
  /\ network' =
       (IF outcome = "ok" THEN getNetworkFromChainId(target) ELSE network)
  /\ UNCHANGED <<authVars, envVars, address, isConnected, storeVars,
                 hookVars, flightVars, notifSince>>

\* The whole call: the request is sent and settles; nothing is read or
\* written after the await but the value returned and the notification
\* dispatched (none on success, type "info" for code 4001, type "error"
\* otherwise).  The request resolves once the provider is on the target
\* chain; the provider announces its change of chain by a chainChanged of
\* its own.  lastOp records the provider's answer in its notif field.
SwitchNetwork(target, outcome) ==
  /\ mounted /\ providerKind # "absent"
  /\ outcome = "ok" => provChain = target
  /\ lastOp' =
       Op("switchNetwork", target,
          CASE outcome = "ok" -> "true"
            [] outcome = "4001" -> "falseInfo"
            [] OTHER -> "falseError",
          outcome)
  /\ UNCHANGED <<authVars, envVars, reduxVars, storeVars, hookVars,
                 flightVars, notifSince>>

\* the steps around a change of network: the hook mounted on any provider,
\* connected by the persisted-state pass or not
NetworkNext ==
  \/ Mount
  \/ Unmount
  \/ \E a \in Addrs, ok \in BOOLEAN : ReconResolve(a, ok)
  \/ \E c \in Chains \cup {UnlistedChain} : ProviderChainChanged(c)
  \/ \E c \in Chains : SwitchNoProvider(c)
  \/ \E c \in Chains, o \in SwitchOutcomes : SwitchNetwork(c, o)

(***************************************************************************)
(* Wallet specification                                                    *)
(***************************************************************************)
WalletNext ==
  \/ Mount
  \/ Unmount
  \/ ConnectNoProvider
  \/ ConnectStart
  \/ \E o \in AccountOutcomes : ConnectAccounts(o)
  \/ \E a \in Addrs, ok \in BOOLEAN : ConnectNetwork(a, ok)
  \/ DisconnectNow
  \/ DisconnectStart
  \/ \E ok \in BOOLEAN : DisconnectResolve(ok)
  \/ \E a \in Addrs \cup {NoAddr} : ProviderAccountsChanged(a)
  \/ \E c \in Chains : ProviderChainChanged(c)
  \/ \E a \in Addrs, ok \in BOOLEAN : ReconResolve(a, ok)

\* the steps of a hook mounted with autoConnect on a provider that has no
\* disconnect() and stays on one chain
AutoNext ==
  \/ Mount
  \/ Unmount
  \/ ConnectStart
  \/ \E o \in AccountOutcomes : ConnectAccounts(o)
  \/ \E a \in Addrs, ok \in BOOLEAN : ConnectNetwork(a, ok)
  \/ DisconnectNow
  \/ \E a \in Addrs \cup {NoAddr} : ProviderAccountsChanged(a)
  \/ \E a \in Addrs, ok \in BOOLEAN : ReconResolve(a, ok)
  \/ \E ok \in BOOLEAN : AutoAccounts(ok)
  \/ \E a \in Addrs, ok \in BOOLEAN : AutoChain(a, ok)

(***************************************************************************)
(* AuthService: values                                                     *)
(***************************************************************************)
\* lifetime of a demo token (24 hours), in clock ticks of the model
TokenTTL == 1

NoToken == <<>>
NoExpiry == <<>>
NoProfile == [address |-> NoAddr, isDefaultProfile |-> FALSE]

\* `demo_token_${Date.now()}` and `demo_refresh_${Date.now()}`
DemoToken(t) == <<"demo_token", t>>
DemoRefresh(t) == <<"demo_refresh", t>>

\* new Date(ms).toISOString() and new Date(isoString)
ToISOString(t) == <<"iso", t>>
ParseDate(iso) == iso[2]

\* the profile object stored by register(userData)
Registered(a) == [address |-> a, isDefaultProfile |-> FALSE]

walletRest ==
  <<envVars, reduxVars, lsConnection, ssLogout, ssForceReconnect, hookVars,
    flightVars, histVars>>

\* lastAuthOp: operation, its argument, its outcome and the audit events it
\* handed to hipaaComplianceService.createAuditLog, in order
NoAuthOp ==
  [op |-> "none", arg |-> NoAddr, res |-> "none", audit |-> <<>>,
   calls |-> <<>>, ret |-> NoProfile]
AuthOp(o, a, r) ==
  [op |-> o, arg |-> a, res |-> r, audit |-> <<>>, calls |-> <<>>,
   ret |-> NoProfile]
Audited(o, a, r, events) ==
  [op |-> o, arg |-> a, res |-> r, audit |-> events, calls |-> <<>>,
   ret |-> NoProfile]
\* a UserService operation: calls is the sequence of authService and
\* apiService calls it made, audit the createAuditLog calls
UserOp(o, a, r, made, events) ==
  [op |-> o, arg |-> a, res |-> r, audit |-> events, calls |-> made,
   ret |-> NoProfile]
\* the operation rec returned the profile p
Returning(rec, p) == [rec EXCEPT !.ret = p]

\* loggedOut: a logout() has completed since this call was invoked
IdleLogin ==
  [pc |-> "idle", addr |-> NoAddr, t |-> 0, profile |-> NoProfile,
   loggedOut |-> FALSE]
IdleRegister == [pc |-> "idle", addr |-> NoAddr]
IdleUserCall ==
  [pc |-> "idle", profile |-> NoProfile, calls |-> <<>>, audit |-> <<>>]

(***************************************************************************)
(* AuthService: synchronous members                                        *)
(***************************************************************************)
\* isAuthenticated() with an open comparison (expiryDate < new Date())
isAuthenticatedOpenComparison ==
  IF token = NoToken THEN FALSE
  ELSE IF tokenExpiry # NoExpiry /\ ParseDate(tokenExpiry) < now THEN FALSE
  ELSE TRUE

isAuthenticated ==
  IF token = NoToken THEN FALSE
  ELSE IF tokenExpiry # NoExpiry /\ ParseDate(tokenExpiry) <= now THEN FALSE
  ELSE TRUE

verifyToken ==
  IF token = NoToken THEN FALSE
  ELSE IF tokenExpiry # NoExpiry /\ ParseDate(tokenExpiry) <= now THEN FALSE
  ELSE TRUE

isNewUser == isNewUserFlag = TRUE

isRegistrationComplete == userProfile # NoProfile /\ ~isNewUserFlag

\* loadAuthState: memory is rebuilt from localStorage
loadAuthState ==
  /\ token' = lsToken'
  /\ refreshToken' = lsRefreshToken'
  /\ tokenExpiry' = lsTokenExpiry'
  /\ userProfile' = lsUserProfile'
  /\ authWalletAddress' = lsAddress'
  /\ isNewUserFlag' = (lsIsNewUser' = "true")

\* updateAuthState that does not persist the expiry
updateAuthStateWithoutExpiry(authData) ==
  /\ token' = authData.token
  /\ refreshToken' = authData.refreshToken
  /\ tokenExpiry' = authData.expiresAt
  /\ userProfile' = authData.userProfile
  /\ isNewUserFlag' = (authData.isNewUser = TRUE)
  /\ lsToken' = (IF authData.token # NoToken THEN authData.token ELSE lsToken)
  /\ lsRefreshToken' =
       (IF authData.refreshToken # NoToken
          THEN authData.refreshToken ELSE lsRefreshToken)
  /\ lsTokenExpiry' = lsTokenExpiry
  /\ lsUserProfile' =
       (IF authData.userProfile # NoProfile
          THEN authData.userProfile ELSE lsUserProfile)
  /\ lsIsNewUser' = (IF authData.isNewUser = TRUE THEN "true" ELSE "false")

\* updateAuthState(authData)
updateAuthState(authData) ==
  /\ token' = authData.token
  /\ refreshToken' = authData.refreshToken
  /\ tokenExpiry' = authData.expiresAt
  /\ userProfile' = authData.userProfile
  /\ isNewUserFlag' = (authData.isNewUser = TRUE)
  /\ lsToken' = (IF authData.token # NoToken THEN authData.token ELSE lsToken)
  /\ lsRefreshToken' =
       (IF authData.refreshToken # NoToken
          THEN authData.refreshToken ELSE lsRefreshToken)
  /\ lsTokenExpiry' =
       (IF authData.expiresAt # NoExpiry
          THEN authData.expiresAt ELSE lsTokenExpiry)
  /\ lsUserProfile' =
       (IF authData.userProfile # NoProfile
          THEN authData.userProfile ELSE lsUserProfile)
  /\ lsIsNewUser' = (IF authData.isNewUser = TRUE THEN "true" ELSE "false")

\* getUserByWallet(walletAddress): the profile it returns
getUserByWallet(a) ==
  IF lsUserProfile # NoProfile /\ lsUserProfile.address = a THEN lsUserProfile
  ELSE IF a \in savedUsers THEN Registered(a)
  ELSE NoProfile

(***************************************************************************)
(* AuthService initial state: the constructor has run loadAuthState on     *)
(* what an earlier visit persisted: nothing, or a bundle written by        *)
(* updateAuthState whose expiry is now or in the future.                   *)
(***************************************************************************)
AuthFresh ==
  /\ lsToken = NoToken /\ lsRefreshToken = NoToken /\ lsTokenExpiry = NoExpiry
  /\ lsUserProfile = NoProfile /\ lsIsNewUser = "absent" /\ savedUsers = {}

AuthPersisted ==
  /\ lsToken = DemoToken(0) /\ lsRefreshToken = DemoRefresh(0)
  /\ lsTokenExpiry \in {ToISOString(0), ToISOString(TokenTTL)}
  /\ \/ lsUserProfile = NoProfile /\ savedUsers = {}
     \/ lsUserProfile = Registered(PersistedAddr)
          /\ savedUsers = {PersistedAddr}
  /\ lsIsNewUser = "false"

AuthLoaded ==
  /\ token = lsToken /\ refreshToken = lsRefreshToken
  /\ tokenExpiry = lsTokenExpiry /\ userProfile = lsUserProfile
  /\ authWalletAddress = lsAddress
  /\ isNewUserFlag = (lsIsNewUser = "true")
  /\ now = 0
  /\ login = IdleLogin /\ logoutPc = "idle" /\ register = IdleRegister
  /\ userCall = IdleUserCall
  /\ lastAuthOp = NoAuthOp

(***************************************************************************)
(* login(credentials)                                                      *)
(***************************************************************************)
\* up to the first await; without an address the catch block returns at once
LoginStart(cred) ==
  /\ login.pc = "idle"
  /\ LET wa == IF cred # NoAddr THEN cred ELSE authWalletAddress
     IN IF wa = NoAddr
          THEN /\ lastAuthOp' =
                    Audited("login", cred, "addressRequired",
                            <<"AUTH_FAILURE">>)
               /\ UNCHANGED <<authWalletAddress, lsAddress, login>>
          ELSE /\ authWalletAddress' = wa
               /\ lsAddress' = wa
               /\ login' = [IdleLogin EXCEPT !.pc = "auditAttempt", !.addr = wa]
               /\ UNCHANGED lastAuthOp
  /\ UNCHANGED <<token, refreshToken, tokenExpiry, userProfile, isNewUserFlag,
                 lsAuthVars, logoutPc, register, now, userCall, walletRest>>

\* the AUTH_ATTEMPT audit call settles; then the cached path returns, or
\* performApiLogin builds its result up to the await of getUserByWallet
LoginAttemptLogged(ok) ==
  /\ login.pc = "auditAttempt"
  /\ IF ~ok
       THEN /\ lastAuthOp' =
                 Audited("login", login.addr, "failed",
                         <<"AUTH_ATTEMPT", "AUTH_FAILURE">>)
            /\ login' = IdleLogin
            /\ UNCHANGED <<isNewUserFlag, lsIsNewUser>>
       ELSE IF isAuthenticated /\ userProfile # NoProfile
         THEN /\ lastAuthOp' =
                   Audited("login", login.addr, "cached", <<"AUTH_ATTEMPT">>)
              /\ login' = IdleLogin
              /\ UNCHANGED <<isNewUserFlag, lsIsNewUser>>
         ELSE LET found == getUserByWallet(login.addr)
              IN /\ login' = [login EXCEPT !.pc = "apiLogin", !.t = now,
                                           !.profile = found]
                 /\ isNewUserFlag' =
                      (IF found = NoProfile THEN TRUE ELSE isNewUserFlag)
                 /\ lsIsNewUser' =
                      (IF found = NoProfile THEN "true" ELSE lsIsNewUser)
                 /\ UNCHANGED lastAuthOp
  /\ UNCHANGED <<token, refreshToken, tokenExpiry, userProfile,
                 authWalletAddress, lsToken, lsRefreshToken, lsTokenExpiry,
                 lsUserProfile, savedUsers, logoutPc, register, now, userCall,
                 lsAddress, walletRest>>

\* a performApiLogin that reports a new user when no profile was found
AuthResultNewWhenUnknown ==
  [token |-> DemoToken(login.t), refreshToken |-> DemoRefresh(login.t),
   expiresAt |-> ToISOString(login.t + TokenTTL),
   userProfile |-> login.profile, isNewUser |-> (login.profile = NoProfile)]

\* the result of performApiLogin for the call in flight
AuthResult ==
  [token |-> DemoToken(login.t), refreshToken |-> DemoRefresh(login.t),
   expiresAt |-> ToISOString(login.t + TokenTTL),
   userProfile |-> login.profile, isNewUser |-> FALSE]

\* performApiLogin has resolved: updateAuthState, then the AUTH_SUCCESS call
LoginApiDone ==
  /\ login.pc = "apiLogin"
  /\ updateAuthState(AuthResult)
  /\ login' = [login EXCEPT !.pc = "auditSuccess"]
  /\ UNCHANGED <<authWalletAddress, savedUsers, logoutPc, register, now, userCall,
                 lastAuthOp, lsAddress, walletRest>>

\* the AUTH_SUCCESS audit call settles
LoginSuccessLogged(ok) ==
  /\ login.pc = "auditSuccess"
  /\ login' = IdleLogin
  /\ lastAuthOp' =
       IF ok
         THEN Audited("login", login.addr, "success",
                      <<"AUTH_ATTEMPT", "AUTH_SUCCESS">>)
         ELSE Audited("login", login.addr, "failedAfterLogin",
                      <<"AUTH_ATTEMPT", "AUTH_SUCCESS", "AUTH_FAILURE">>)
  /\ UNCHANGED <<memVars, lsAuthVars, logoutPc, register, now, userCall, lsAddress,
                 walletRest>>

(***************************************************************************)
(* logout()                                                                *)
(***************************************************************************)
LogoutStart ==
  /\ logoutPc = "idle"
  /\ logoutPc' = "audit"
  /\ UNCHANGED <<memVars, lsAuthVars, login, register, now, userCall, lastAuthOp,
                 lsAddress, walletRest>>

\* the AUTH_LOGOUT audit call settles; a rejection skips the clearing
LogoutLogged(ok) ==
  /\ logoutPc = "audit"
  /\ logoutPc' = "idle"
  /\ IF ok
       THEN /\ lsToken' = NoToken
            /\ lsRefreshToken' = NoToken
            /\ lsTokenExpiry' = NoExpiry
            /\ lsUserProfile' = NoProfile
            /\ lsIsNewUser' = "absent"
            /\ token' = NoToken
            /\ refreshToken' = NoToken
            /\ tokenExpiry' = NoExpiry
            /\ userProfile' = NoProfile
            /\ isNewUserFlag' = FALSE
            /\ login' =
                 (IF login.pc = "idle"
                    THEN login ELSE [login EXCEPT !.loggedOut = TRUE])
            /\ lastAuthOp' =
                 Audited("logout", NoAddr, "true", <<"AUTH_LOGOUT">>)
       ELSE /\ lastAuthOp' =
                 Audited("logout", NoAddr, "false", <<"AUTH_LOGOUT">>)
            /\ UNCHANGED <<token, refreshToken, tokenExpiry, userProfile,
                           isNewUserFlag, lsToken, lsRefreshToken,
                           lsTokenExpiry, lsUserProfile, lsIsNewUser, login>>
  /\ UNCHANGED <<authWalletAddress, savedUsers, register, now, userCall,
                 lsAddress, walletRest>>

(***************************************************************************)
(* register(userData)                                                      *)
(***************************************************************************)
RegisterStart(a) ==
  /\ register.pc = "idle"
  /\ IF a = NoAddr
       THEN /\ lastAuthOp' =
                 Audited("register", a, "false", <<"REGISTRATION_FAILURE">>)
            /\ UNCHANGED register
       ELSE /\ register' = [pc |-> "auditAttempt", addr |-> a]
            /\ UNCHANGED lastAuthOp
  /\ UNCHANGED <<memVars, lsAuthVars, login, logoutPc, now, userCall, lsAddress,
                 walletRest>>

RegisterAttemptLogged(ok) ==
  /\ register.pc = "auditAttempt"
  /\ IF ok
       THEN /\ savedUsers' = savedUsers \cup {register.addr}
            /\ userProfile' = Registered(register.addr)
            /\ lsUserProfile' = Registered(register.addr)
            /\ isNewUserFlag' = FALSE
            /\ lsIsNewUser' = "false"
            /\ register' = [register EXCEPT !.pc = "auditSuccess"]
            /\ UNCHANGED lastAuthOp
       ELSE /\ register' = IdleRegister
            /\ lastAuthOp' =
                 Audited("register", register.addr, "false",
                         <<"REGISTRATION_ATTEMPT", "REGISTRATION_FAILURE">>)
            /\ UNCHANGED <<savedUsers, userProfile, lsUserProfile,
                           isNewUserFlag, lsIsNewUser>>
  /\ UNCHANGED <<token, refreshToken, tokenExpiry, authWalletAddress, lsToken,
                 lsRefreshToken, lsTokenExpiry, login, logoutPc, now, userCall,
                 lsAddress, walletRest>>

RegisterSuccessLogged(ok) ==
  /\ register.pc = "auditSuccess"
  /\ register' = IdleRegister
  /\ lastAuthOp' =
       IF ok
         THEN Audited("register", register.addr, "true",
                      <<"REGISTRATION_ATTEMPT", "REGISTRATION_SUCCESS">>)
         ELSE Audited("register", register.addr, "falseAfterStore",
                      <<"REGISTRATION_ATTEMPT", "REGISTRATION_SUCCESS",
                        "REGISTRATION_FAILURE">>)
  /\ UNCHANGED <<memVars, lsAuthVars, login, logoutPc, now, userCall, lsAddress,
                 walletRest>>

(***************************************************************************)
(* refreshAuthToken()                                                      *)
(***************************************************************************)
\* how far the three localStorage.setItem calls get before one throws
\* (storage quota); 3 is the run without an exception
RefreshWrites == 0 .. 3

refreshAuthToken(written) ==
  IF refreshToken = NoToken
    THEN /\ lastAuthOp' = AuthOp("refresh", NoAddr, "noRefreshToken")
         /\ UNCHANGED <<token, refreshToken, tokenExpiry, lsToken,
                        lsRefreshToken, lsTokenExpiry>>
    ELSE /\ token' = DemoToken(now)
         /\ refreshToken' = DemoRefresh(now)
         /\ tokenExpiry' = ToISOString(now + TokenTTL)
         /\ lsToken' = (IF written >= 1 THEN DemoToken(now) ELSE lsToken)
         /\ lsRefreshToken' =
              (IF written >= 2 THEN DemoRefresh(now) ELSE lsRefreshToken)
         /\ lsTokenExpiry' =
              (IF written >= 3
                 THEN ToISOString(now + TokenTTL) ELSE lsTokenExpiry)
         /\ lastAuthOp' =
              AuthOp("refresh", NoAddr, IF written = 3 THEN "true" ELSE "false")

Refresh(written) ==
  /\ refreshAuthToken(written)
  /\ UNCHANGED <<userProfile, authWalletAddress, isNewUserFlag, lsUserProfile,
                 lsIsNewUser, savedUsers, callVars, now, lsAddress,
                 walletRest>>

(***************************************************************************)
(* authService.ensureValidToken(), as called by UserService                *)
(***************************************************************************)
\* AuthService defines no member of this name: the call throws a TypeError
\* before anything is attempted, and the caller's catch block takes over
EnsureValidToken ==
  /\ lastAuthOp' = AuthOp("ensureValidToken", NoAddr, "TypeError")
  /\ UNCHANGED <<memVars, lsAuthVars, callVars, now, lsAddress, walletRest>>

(***************************************************************************)
(* UserService.  Its userProfileKey is the key AuthService keeps the       *)
(* profile under (lsUserProfile).  Each call of authService                *)
(* .ensureValidToken() throws the TypeError above.                         *)
(***************************************************************************)
\* everything a UserService operation leaves alone but the stored profile
userFrame ==
  UNCHANGED <<memVars, lsToken, lsRefreshToken, lsTokenExpiry, lsIsNewUser,
              savedUsers, login, logoutPc, register, now, lsAddress,
              walletRest>>

\* the fallback profile of getCurrentUser for the stored wallet address
DefaultProfile(a) == [address |-> a, isDefaultProfile |-> TRUE]

\* the profile of the outer catch block of getCurrentUser: it carries
\* isEmergencyProfile and no isDefaultProfile key
EmergencyProfile(a) == [address |-> a, isDefaultProfile |-> FALSE]

\* getCurrentUser after its API attempt: the cached profile read at the
\* start is returned, or a default profile is stored and the
\* DEFAULT_PROFILE_CREATED audit call awaited
ProfileFallback(cached, made, events) ==
  IF cached # NoProfile
    THEN /\ lastAuthOp' =
              Returning(UserOp("getCurrentUser", NoAddr, "cached", made,
                               events), cached)
         /\ userCall' = IdleUserCall
         /\ UNCHANGED lsUserProfile
    ELSE /\ lsUserProfile' = DefaultProfile(lsAddress)
         /\ userCall' = [pc |-> "auditDefault",
                         profile |-> DefaultProfile(lsAddress),
                         calls |-> made, audit |-> events]
         /\ UNCHANGED lastAuthOp

\* getCurrentUser up to its first await: with a live session the call of
\* ensureValidToken throws and the catch block awaits the PROFILE_API_ERROR
\* audit call; without one no call is made
GetCurrentUserStart ==
  /\ userCall.pc = "idle"
  /\ IF isAuthenticated
       THEN /\ userCall' = [pc |-> "auditApiError", profile |-> lsUserProfile,
                            calls |-> <<"ensureValidToken:TypeError">>,
                            audit |-> <<>>]
            /\ UNCHANGED <<lsUserProfile, lastAuthOp>>
       ELSE ProfileFallback(lsUserProfile, <<>>, <<>>)
  /\ userFrame

\* the PROFILE_API_ERROR audit call settles; a rejection reaches the outer
\* catch block, which returns the emergency profile
GetCurrentUserApiErrorLogged(ok) ==
  /\ userCall.pc = "auditApiError"
  /\ IF ok
       THEN ProfileFallback(userCall.profile, userCall.calls,
                            <<"PROFILE_API_ERROR">>)
       ELSE /\ lastAuthOp' =
                 Returning(UserOp("getCurrentUser", NoAddr,
                                  "emergencyProfile", userCall.calls,
                                  <<"PROFILE_API_ERROR">>),
                           EmergencyProfile(lsAddress))
            /\ userCall' = IdleUserCall
            /\ UNCHANGED lsUserProfile
  /\ userFrame

\* the DEFAULT_PROFILE_CREATED audit call settles
GetCurrentUserDefaultLogged(ok) ==
  /\ userCall.pc = "auditDefault"
  /\ lastAuthOp' =
       Returning(UserOp("getCurrentUser", NoAddr,
                        IF ok THEN "defaultProfile" ELSE "emergencyProfile",
                        userCall.calls,
                        Append(userCall.audit, "DEFAULT_PROFILE_CREATED")),
                 IF ok THEN userCall.profile ELSE EmergencyProfile(lsAddress))
  /\ userCall' = IdleUserCall
  /\ UNCHANGED lsUserProfile
  /\ userFrame

\* getUserByAddress(address): the whole call, which reads and writes nothing
\* but its argument; apiOk and auditOk are how apiService.get and the
\* VIEW_USER_PROFILE audit call settle
GetUserByAddress(a, apiOk, auditOk) ==
  /\ lastAuthOp' =
       IF a = NoAddr
         THEN UserOp("getUserByAddress", a, "USER_FETCH_ERROR", <<>>, <<>>)
       ELSE IF ~apiOk
         THEN UserOp("getUserByAddress", toLowerCase(a), "USER_FETCH_ERROR",
                     <<"apiService.get">>, <<>>)
       ELSE UserOp("getUserByAddress", toLowerCase(a),
                   IF auditOk THEN "data" ELSE "USER_FETCH_ERROR",
                   <<"apiService.get">>, <<"VIEW_USER_PROFILE">>)
  /\ UNCHANGED <<lsUserProfile, userCall>>
  /\ userFrame

\* registerUser(userData): complete says that name and role are given
RegisterUser(a, complete, apiOk, auditOk) ==
  /\ lastAuthOp' =
       IF a = NoAddr \/ ~complete
         THEN UserOp("registerUser", a, "USER_REGISTRATION_ERROR", <<>>, <<>>)
       ELSE IF ~apiOk
         THEN UserOp("registerUser", toLowerCase(a),
                     "USER_REGISTRATION_ERROR", <<"apiService.post">>, <<>>)
       ELSE UserOp("registerUser", toLowerCase(a),
                   IF auditOk THEN "data" ELSE "USER_REGISTRATION_ERROR",
                   <<"apiService.post">>, <<"USER_REGISTRATION">>)
  /\ UNCHANGED <<lsUserProfile, userCall>>
  /\ userFrame

\* updateProfile(profileData): ensureValidToken throws before any await and
\* the catch block stores profileData (stored = FALSE: setItem threw)
UpdateProfile(profileData, stored) ==
  /\ lsUserProfile' = (IF stored THEN profileData ELSE lsUserProfile)
  /\ lastAuthOp' =
       UserOp("updateProfile", profileData.address, "PROFILE_UPDATE_ERROR",
              <<"ensureValidToken:TypeError">>, <<>>)
  /\ UNCHANGED userCall
  /\ userFrame

\* deleteAccount(options): ensureValidToken throws before any await
DeleteAccount ==
  /\ lastAuthOp' =
       UserOp("deleteAccount", NoAddr, "ACCOUNT_DELETION_ERROR",
              <<"ensureValidToken:TypeError">>, <<>>)
  /\ UNCHANGED <<lsUserProfile, userCall>>
  /\ userFrame

(***************************************************************************)
(* Clock and page reload                                                   *)
(***************************************************************************)
Tick ==
  /\ now < MaxTime
  /\ now' = now + 1
  /\ UNCHANGED <<memVars, lsAuthVars, callVars, lastAuthOp, lsAddress,
                 walletRest>>

\* the page is loaded again: every call in flight is gone and the
\* AuthService constructor rebuilds memory from localStorage
Reload ==
  /\ ~mounted /\ WalletIdle
  /\ UNCHANGED <<lsAuthVars, lsAddress>>
  /\ loadAuthState
  /\ login' = IdleLogin /\ logoutPc' = "idle" /\ register' = IdleRegister
  /\ userCall' = IdleUserCall
  /\ lastAuthOp' = AuthOp("reload", NoAddr, "done")
  /\ UNCHANGED <<now, walletRest>>

(***************************************************************************)
(* Specifications                                                          *)
(***************************************************************************)
AuthNext ==
  \/ \E a \in Addrs \cup {NoAddr} : LoginStart(a)
  \/ \E ok \in BOOLEAN : LoginAttemptLogged(ok)
  \/ LoginApiDone
  \/ \E ok \in BOOLEAN : LoginSuccessLogged(ok)
  \/ LogoutStart
  \/ \E ok \in BOOLEAN : LogoutLogged(ok)
  \/ \E a \in {RegisterAddr, NoAddr} : RegisterStart(a)
  \/ \E ok \in BOOLEAN : RegisterAttemptLogged(ok)
  \/ \E ok \in BOOLEAN : RegisterSuccessLogged(ok)
  \/ \E w \in RefreshWrites : Refresh(w)
  \/ EnsureValidToken
  \/ Tick
  \/ Reload

\* the hook with its default option (autoConnect = false), fresh session
WalletSpecInit ==
  /\ WalletInit /\ autoConnect = FALSE /\ AuthFresh /\ AuthLoaded

WalletSpec == WalletSpecInit /\ [][WalletNext]_vars

\* switchNetwork and the provider's chain notifications
NetworkSpecInit ==
  /\ WalletInit /\ autoConnect = FALSE /\ AuthFresh /\ AuthLoaded

NetworkSpec == NetworkSpecInit /\ [][NetworkNext]_vars

\* the hook with autoConnect = true on a provider without disconnect()
AutoSpecInit ==
  /\ WalletInit /\ autoConnect = TRUE /\ providerKind = "plain"
  /\ AuthFresh /\ AuthLoaded

AutoSpec == AutoSpecInit /\ [][AutoNext]_vars

\* the AuthService singleton on its own; the hook is not mounted
AuthSpecInit ==
  /\ WalletInit /\ autoConnect = FALSE /\ providerKind = "plain"
  /\ provAccount = NoAddr
  /\ (AuthFresh \/ AuthPersisted) /\ AuthLoaded

AuthSpec == AuthSpecInit /\ [][AuthNext]_vars

\* UserService beside login(): the clock moves, the hook is not mounted
UserNext ==
  \/ \E a \in Addrs \cup {NoAddr} : LoginStart(a)
  \/ \E ok \in BOOLEAN : LoginAttemptLogged(ok)
  \/ LoginApiDone
  \/ \E ok \in BOOLEAN : LoginSuccessLogged(ok)
  \/ GetCurrentUserStart
  \/ \E ok \in BOOLEAN : GetCurrentUserApiErrorLogged(ok)
  \/ \E ok \in BOOLEAN : GetCurrentUserDefaultLogged(ok)
  \/ \E a \in Addrs \cup {NoAddr}, apiOk, auditOk \in BOOLEAN :
       GetUserByAddress(a, apiOk, auditOk)
  \/ \E a \in {RegisterAddr, NoAddr}, complete, apiOk, auditOk \in BOOLEAN :
       RegisterUser(a, complete, apiOk, auditOk)
  \/ \E a \in Addrs, stored \in BOOLEAN : UpdateProfile(Registered(a), stored)
  \/ DeleteAccount
  \/ Tick

UserSpecInit ==
  /\ WalletInit /\ autoConnect = FALSE /\ providerKind = "plain"
  /\ provAccount = NoAddr
  /\ (AuthFresh \/ AuthPersisted) /\ AuthLoaded

UserSpec == UserSpecInit /\ [][UserNext]_vars

\* the hook and login() together: a provider without disconnect() that
\* stays on one chain, a fresh session, the clock standing still
SessionNext ==
  \/ Mount
  \/ Unmount
  \/ ConnectStart
  \/ \E o \in AccountOutcomes : ConnectAccounts(o)
  \/ \E a \in Addrs, ok \in BOOLEAN : ConnectNetwork(a, ok)
  \/ \E a \in Addrs \cup {NoAddr} : ProviderAccountsChanged(a)
  \/ \E a \in Addrs \cup {NoAddr} : LoginStart(a)
  \/ \E ok \in BOOLEAN : LoginAttemptLogged(ok)
  \/ LoginApiDone
  \/ \E ok \in BOOLEAN : LoginSuccessLogged(ok)

SessionSpecInit ==
  /\ WalletInit /\ autoConnect = FALSE /\ providerKind = "plain"
  /\ lsAddress = NoAddr
  /\ AuthFresh /\ AuthLoaded

SessionSpec == SessionSpecInit /\ [][SessionNext]_vars

(***************************************************************************)
(* Claims                                                                  *)
(***************************************************************************)
InitPassOps == {"reconcile", "autoAccounts", "autoConnect"}

\* a notification that was handed to the registered listener
Delivered(o) == lastOp.op = o /\ lastOp.res # "notDelivered"

\* C1: when an accountsChanged carrying address B was handed to the listener
\* between the await points of a connectWallet() call whose account request
\* had returned a different address A, then once that call has completed the
\* address in memory and in persistence is B.
C1_NotificationWinsOverConnect ==
  (/\ lastOp.op = "connect" /\ lastOp.res = "success"
   /\ lastOp.notif # NoAddr /\ lastOp.notif # lastOp.arg)
    => (address = lastOp.notif /\ lsAddress = lastOp.notif)

\* C2: when every operation has completed and the operation that came last
\* is a provider notification, the identity equals that notification's data:
\* the address after accountsChanged, the chain id after chainChanged.
C2_FinalIdentityIsLastNotification ==
  (mounted /\ WalletIdle)
    => /\ Delivered("accountsChanged") => address = lastOp.arg
       /\ Delivered("chainChanged") => chainId = lastOp.arg

\* C7: an accountsChanged with an empty account list received while
\* Connected leaves the state Disconnected, the identity cleared and the
\* persisted address and connected flag removed.
C7_EmptyAccountsDisconnects ==
  (Delivered("accountsChanged") /\ lastOp.arg = NoAddr /\ lastOp.was)
    => (/\ ~isConnected /\ address = NoAddr
        /\ lsAddress = NoAddr /\ ~lsConnection)

\* C9: the persisted-state pass ends Connected only if the provider exposes
\* the persisted account; when it does not (no account, another account, or
\* no answer) the pass leaves the state Disconnected and the persisted
\* connected flag removed.
C9_NoGhostConnection ==
  (lastOp.op = "reconcile" /\ provAccount # lastOp.arg)
    => (~isConnected /\ ~lsConnection)

\* C10: a step of an initialization pass (persisted-state pass or
\* auto-connect pass) taken right after disconnectWallet() has completed
\* leaves the state Disconnected and the persisted address and flag absent.
C10_NoResurrectionAfterDisconnect ==
  [][(lastOp.op = "disconnect" /\ lastOp'.op \in InitPassOps)
       => (~isConnected' /\ lsAddress' = NoAddr /\ ~lsConnection')]_vars

\* the expiry instant of the credential held is strictly after now
CredentialUnexpired ==
  /\ token # NoToken /\ tokenExpiry # NoExpiry
  /\ ParseDate(tokenExpiry) > now

\* C3: a call of ensureValidToken() returns successfully only with a
\* credential whose expiry is strictly after now, and when a refresh token
\* is held the credential has been refreshed by the time the call completes.
C3_EnsureValidTokenYieldsUnexpired ==
  lastAuthOp.op = "ensureValidToken"
    => /\ lastAuthOp.res = "returned" => CredentialUnexpired
       /\ refreshToken # NoToken => CredentialUnexpired

\* C4: when logout() has returned, isAuthenticated() is false, whatever the
\* audit call made by logout() did.
C4_LogoutThenNotAuthenticated ==
  lastAuthOp.op = "logout" => ~isAuthenticated

C6_FailedRefreshClearsCredential ==
  (lastAuthOp.op = "refresh" /\ lastAuthOp.res # "true")
    => /\ token = NoToken /\ refreshToken = NoToken /\ tokenExpiry = NoExpiry
       /\ lsToken = NoToken /\ lsRefreshToken = NoToken
       /\ lsTokenExpiry = NoExpiry

\* C8: the step in which the handler applies an accountsChanged carrying
\* address B while Connected(A), B different from A, leaves the state
\* Connected with address B, and the session credential held after the step
\* is bound to B.
C8_AccountSwitchRebindsSession ==
  [][(/\ lastOp' # lastOp
      /\ lastOp'.op = "accountsChanged" /\ lastOp'.res = "applied"
      /\ lastOp'.was /\ lastOp'.arg # NoAddr
      /\ lastOp'.prev # NoAddr /\ lastOp'.prev # lastOp'.arg)
       => /\ isConnected' /\ address' = lastOp'.arg
          /\ token' # NoToken => authWalletAddress' = lastOp'.arg]_vars

C13_ConnectOnlyWhenDisconnected ==
  [][(isConnected \/ InFlightConnects > 0)
       => connAwaitAccounts' <= connAwaitAccounts]_vars

\* C14: the step in which connectWallet() receives an empty account list or
\* a rejection with code 4001 leaves the state Disconnected with the error
\* recorded, and issues no account request.
C14_RejectedConnectEndsDisconnected ==
  [][(/\ lastOp' # lastOp /\ lastOp'.op = "connect"
      /\ lastOp'.arg \in {"empty", "4001"})
       => /\ ~isConnected' /\ error' = lastOp'.res /\ error' # NoErr
          /\ connAwaitAccounts' < connAwaitAccounts]_vars

\* C15: the step in which connectWallet() records an error records the
\* message for a pending request exactly when the provider rejected the
\* account request with code -32002, returns that message, and issues no
\* account request.
C15_PendingRequestDistinct ==
  [][(error' # error /\ error' # NoErr /\ lastOp'.op = "connect")
       => /\ lastOp'.res = error'
          /\ (error' = "pending") <=> (lastOp'.arg = "-32002")
          /\ connAwaitAccounts' <= connAwaitAccounts]_vars

\* a connect has failed with code -32002
C15_Witness ==
  /\ lastOp.op = "connect" /\ lastOp.arg = "-32002"
  /\ error = "pending" /\ InFlightConnects = 0

\* C16: connectWallet() called without a provider returns the
\* provider-unavailable outcome and changes neither a persisted key nor the
\* identity in memory.
C16_NoProviderConnectWritesNothing ==
  [][(providerKind = "absent" /\ lastOp'.op = "connect")
       => /\ lastOp'.res = "noProvider" /\ error' = "noProvider"
          /\ UNCHANGED <<storeVars, reduxVars, lsAuthVars>>]_vars

\* a connect without a provider has returned while persistence held an
\* address and the connected flag
C16_Witness ==
  /\ providerKind = "absent"
  /\ lastOp.op = "connect" /\ lastOp.res = "noProvider"
  /\ lsAddress = PersistedAddr /\ lsConnection

\* C17: when connectWallet() has succeeded with account A, the state is
\* Connected with the lowercased form of A and the provider's chain, and the
\* persisted address is the lowercased form of A.
C17_ConnectStoresLowercased ==
  (lastOp.op = "connect" /\ lastOp.res = "success")
    => /\ isConnected /\ chainId = provChain
       /\ address = toLowerCase(lastOp.arg)
       /\ lsAddress = toLowerCase(lastOp.arg)

C19_CachedLoginMatchesAddress ==
  [][(/\ lastAuthOp' # lastAuthOp
      /\ lastAuthOp'.op = "login" /\ lastAuthOp'.res = "cached")
       => userProfile'.address = lastAuthOp'.arg]_vars

\* C20: when login() or ensureValidToken() has completed without an
\* address argument and without a stored address, its outcome is the
\* failure saying that a wallet identity is required.
C20_NoIdentityFailsTyped ==
  (/\ lastAuthOp.op \in {"login", "ensureValidToken"}
   /\ lastAuthOp.arg = NoAddr /\ authWalletAddress = NoAddr)
    => lastAuthOp.res = "addressRequired"

\* every credential field and the profile are unset, in memory and in
\* persistence
SessionCleared ==
  /\ token = NoToken /\ refreshToken = NoToken /\ tokenExpiry = NoExpiry
  /\ userProfile = NoProfile
  /\ lsToken = NoToken /\ lsRefreshToken = NoToken
  /\ lsTokenExpiry = NoExpiry /\ lsUserProfile = NoProfile

\* C21: the step in which logout() returns leaves token, refresh token,
\* expiry and profile unset in memory and in persistence and returns true;
\* so does a logout() that returns right after another one.
C21_LogoutClearsAndRepeats ==
  [][(logoutPc = "audit" /\ logoutPc' = "idle" /\ lastAuthOp'.op = "logout")
       => (SessionCleared' /\ lastAuthOp'.res = "true")]_vars

C23_AuditNeverVetoes ==
  /\ lastAuthOp.op = "login"
       => lastAuthOp.res \in {"success", "cached", "addressRequired"}
  /\ lastAuthOp.op = "logout" => lastAuthOp.res = "true"
  /\ (lastAuthOp.op = "register" /\ lastAuthOp.arg # NoAddr)
       => lastAuthOp.res = "true"

\* the audit events of an operation include event e
Emitted(rec, e) == \E i \in 1 .. Len(rec.audit) : rec.audit[i] = e

\* C24: every completed connection transition (connect, disconnect, an
\* applied accountsChanged or chainChanged) and every completed credential
\* transition (login, refresh, logout) has handed exactly one audit event to
\* the audit sink.
C24_OneAuditCallPerTransition ==
  /\ (\/ lastOp.op \in {"connect", "disconnect"}
      \/ /\ lastOp.op \in {"accountsChanged", "chainChanged"}
         /\ lastOp.res = "applied")
       => Len(lastOp.audit) = 1
  /\ lastAuthOp.op \in {"login", "refresh", "logout"}
       => Len(lastAuthOp.audit) = 1

\* C25: every completed failure has handed its audit event to the audit
\* sink: AUTH_FAILURE for login, REGISTRATION_FAILURE for register, and some
\* event for a failed refresh, a failed connect and a failed switchNetwork.
C25_FailuresAreAudited ==
  /\ (lastAuthOp.op = "login"
        /\ lastAuthOp.res \notin {"success", "cached"})
       => Emitted(lastAuthOp, "AUTH_FAILURE")
  /\ (lastAuthOp.op = "register" /\ lastAuthOp.res # "true")
       => Emitted(lastAuthOp, "REGISTRATION_FAILURE")
  /\ (lastAuthOp.op = "refresh" /\ lastAuthOp.res # "true")
       => lastAuthOp.audit # <<>>
  /\ (lastOp.op = "connect" /\ lastOp.res # "success")
       => lastOp.audit # <<>>
  /\ (lastOp.op = "switchNetwork" /\ lastOp.res # "true")
       => lastOp.audit # <<>>

\* C26: while the component is torn down, no step changes the identity in
\* memory, the persisted wallet address or the persisted connected flag.
C26_NoWriteAfterTeardown ==
  [][~mounted => UNCHANGED <<address, chainId, isConnected, network,
                            lsAddress, lsConnection>>]_vars

\* C29: the step in which a chainChanged notification is handed to the
\* listener sets chainId to the new chain id and the network descriptor to
\* its lookup result, and leaves the address and the connected flag, in
\* memory and in persistence, unchanged.
C29_ChainChangedUpdatesInPlace ==
  [][(/\ lastOp' # lastOp /\ lastOp'.op = "chainChanged"
      /\ lastOp'.res # "notDelivered")
       => /\ chainId' = lastOp'.arg
          /\ network' = getNetworkFromChainId(lastOp'.arg)
          /\ UNCHANGED <<address, isConnected, lsAddress, lsConnection>>]_vars

\* C30: the step in which switchNetwork() returns changes neither the
\* identity (address, chainId, connected flag, network) nor a persisted or
\* session-storage key, whatever the provider answered; a rejection with
\* code 4001 is reported with an informational notification, and an error
\* notification is used for other failures only.
C30_SwitchNetworkChangesNothing ==
  [][(lastOp' # lastOp /\ lastOp'.op = "switchNetwork")
       => /\ UNCHANGED <<reduxVars, storeVars, lsAuthVars>>
          /\ lastOp'.notif = "4001" => lastOp'.res = "falseInfo"
          /\ lastOp'.res = "falseError" => lastOp'.notif = "other"]_vars

\* switchNetwork() has returned true while Connected, and the chain id in
\* memory is still the one held before
C30_Witness ==
  /\ lastOp.op = "switchNetwork" /\ lastOp.res = "true"
  /\ isConnected /\ chainId # lastOp.arg /\ provChain = lastOp.arg

UserOps ==
  {"getCurrentUser", "getUserByAddress", "registerUser", "updateProfile",
   "deleteAccount"}

BackendCalls ==
  {"apiService.get", "apiService.post", "apiService.put", "apiService.delete"}

\* C27: a step of login, logout or register leaves the persisted wallet
\* address as it was, and a step of a wallet operation or of a UserService
\* operation leaves every session key (tokens, expiry, profile) as it was.
C27_SingleWriter ==
  [][/\ (login' # login \/ logoutPc' # logoutPc \/ register' # register)
          => lsAddress' = lsAddress
     /\ (lastOp' # lastOp
          \/ userCall' # userCall
          \/ (lastAuthOp' # lastAuthOp /\ lastAuthOp'.op \in UserOps))
          => UNCHANGED lsAuthVars]_vars

\* C28: in a completed UserService operation every backend call comes
\* after a call of ensureValidToken() that succeeded in that operation.
C28_BackendCallsBehindEnsureValidToken ==
  lastAuthOp.op \in UserOps
    => \A i \in 1 .. Len(lastAuthOp.calls) :
         lastAuthOp.calls[i] \in BackendCalls
           => \E j \in 1 .. (i - 1) : lastAuthOp.calls[j] = "ensureValidToken"

\* C31: a getCurrentUser() that returned a profile made up locally (the
\* default profile it has just stored, or the profile of its outer catch
\* block) returned one whose isDefaultProfile is true.
C31_SynthesizedProfileIsFlagged ==
  (lastAuthOp.op = "getCurrentUser"
     /\ lastAuthOp.res \in {"defaultProfile", "emergencyProfile"})
    => lastAuthOp.ret.isDefaultProfile

\* C32: the lookup answers for an absent chain id with an unsupported
\* descriptor, and the descriptor stored by an applied chainChanged is the
\* one of the id announced: for an id that is not a key of the table it is
\* unsupported and named "Unknown Network (<id>)".
C32_NetworkLookupTotal ==
  /\ getNetworkFromChainId(NoChain).name = "Unknown"
  /\ ~getNetworkFromChainId(NoChain).isSupported
  /\ (lastOp.op = "chainChanged" /\ lastOp.res = "applied")
       => /\ network.chainId = lastOp.arg
          /\ lastOp.arg \notin {"0x1", "0xaa36a7", "0x5", "0x539"}
               => /\ ~network.isSupported
                  /\ network.name = "Unknown Network (" \o lastOp.arg \o ")"
          /\ lastOp.arg = "0x1"
               => network.isSupported /\ network.name = "Ethereum Mainnet"

\* a chainChanged for an id missing from the table has been applied
C32_Witness ==
  /\ lastOp.op = "chainChanged" /\ lastOp.res = "applied"
  /\ lastOp.arg = UnlistedChain /\ chainId = UnlistedChain
  /\ network.name = "Unknown Network (0x89)"

\* C33: while the hook is mounted its active flag is true, and no
\* accountsChanged or chainChanged handed to a registered listener is
\* dropped by the handler's check of that flag.
C33_HandlersStayLive ==
  /\ mounted => isActive
  /\ lastOp.op \in {"accountsChanged", "chainChanged"}
       => lastOp.res # "ignored"

\* C34: when a login() over which a logout() has completed resumes from
\* performApiLogin, it writes no token: the session is still not
\* authenticated after that step.
C34_LogoutNotUndoneByLogin ==
  [][(login.loggedOut /\ login.pc = "apiLogin" /\ login'.pc = "auditSuccess")
       => (token' = NoToken /\ ~isAuthenticated')]_vars

\* the persisted connected flag and address are those of the identity
PersistenceAgrees ==
  /\ lsConnection <=> isConnected
  /\ lsAddress = address

\* C35: a connect, a disconnect or an accountsChanged handed to the listener
\* that completes in a state where persistence and memory agree on the
\* wallet, and leaves nothing of the hook in flight, ends in a state where
\* they agree.
C35_PersistenceAgreesWithMemory ==
  [][(/\ PersistenceAgrees
      /\ lastOp' # lastOp
      /\ lastOp'.op \in {"connect", "disconnect", "accountsChanged"}
      /\ lastOp'.res # "notDelivered"
      /\ mounted' /\ WalletIdle')
       => PersistenceAgrees']_vars

\* C36: once the handler has applied an accountsChanged with no account,
\* the session is not authenticated.
C36_CredentialDiesWithIdentity ==
  [][(/\ lastOp' # lastOp
      /\ lastOp'.op = "accountsChanged" /\ lastOp'.arg = NoAddr
      /\ lastOp'.res = "applied")
       => ~isAuthenticated']_vars

\* C37: a reload made when no login, logout or register is in flight
\* leaves the profile and the new-user flag in memory as they were before
\* it (token, refresh token and expiry are left out: a refresh cut short by
\* a storage exception is known to split them).
C37_ReloadRoundTrip ==
  [][(/\ lastAuthOp'.op = "reload" /\ lastAuthOp.op # "reload"
      /\ login.pc = "idle" /\ logoutPc = "idle" /\ register.pc = "idle")
       => UNCHANGED <<userProfile, isNewUserFlag>>]_vars

\* C38: while the profile held in memory is a placeholder synthesized by
\* getCurrentUser(), isRegistrationComplete() is false.
C38_PlaceholderIsNoRegistration ==
  userProfile.isDefaultProfile => ~isRegistrationComplete

\* C39: the audit calls of a completed login() are one AUTH_ATTEMPT followed
\* by one AUTH_SUCCESS or one AUTH_FAILURE, whatever path the call took.
C39_LoginAuditPaired ==
  lastAuthOp.op = "login"
    => /\ Len(lastAuthOp.audit) = 2
       /\ lastAuthOp.audit[1] = "AUTH_ATTEMPT"
       /\ lastAuthOp.audit[2] \in {"AUTH_SUCCESS", "AUTH_FAILURE"}

====
